---- MODULE Spec2Model ----
(***************************************************************************)
(* A model of edc_visit_schedule/model_mixins/visit_schedule_model_mixins.py*)
(* VisitScheduleMethodsModelMixin: the `schedule` and `visit_schedule`     *)
(* properties (resolve_schedule / resolve_visit_schedule in the            *)
(* specification) and the `timepoint_datetimes` generator                  *)
(* (project_timepoints), run against the process-global registry           *)
(* site_visit_schedules.                                                   *)
(*                                                                         *)
(* Strings are sequences of one-character strings, so that str.split('.')  *)
(* is computed and not assumed.  Datetimes are calendar dates (the time of *)
(* day is not touched by the offsets modelled here).                       *)
(***************************************************************************)
EXTENDS Integers, Sequences, FiniteSets, TLC

VARIABLES
    self,       \* the model instance: Meta.visit_schedule_name and its two stored fields
    loaded,     \* site_visit_schedules.loaded
    registry,   \* site_visit_schedules.registry: name -> VisitSchedule
    call,       \* the last call made on self: [op, args, result]
    changed,    \* history: the registry or its loaded flag changed since `call`
    prev        \* history: a summary of the call made before `call`

vars == <<self, loaded, registry, call, changed, prev>>

-----------------------------------------------------------------------------
(* Bounds *)

\* longest Meta.visit_schedule_name explored
MaxPathLen == 4
\* longest schedule explored by timepoint_datetimes
MaxVisits == 2
\* largest Visit.base_interval explored
MaxInterval == 2

-----------------------------------------------------------------------------
(* Strings *)

Alphabet == {"a", "."}

Strings(n) == UNION {[1..k -> Alphabet] : k \in 0..n}

Paths == Strings(MaxPathLen)

\* the names visit schedules and schedules are given
Names == {<<"a">>, <<"a", "a">>}

\* str.split('.'): the list of the segments between the separators; never
\* empty, ''.split('.') is [''] and empty segments are kept
RECURSIVE split(_)
split(s) ==
    IF s = <<>> THEN << <<>> >>
    ELSE LET rest == split(Tail(s))
         IN  IF Head(s) = "."
             THEN << <<>> >> \o rest
             ELSE << <<Head(s)>> \o Head(rest) >> \o Tail(rest)

-----------------------------------------------------------------------------
(* Outcomes of a call: a returned value or a raised exception *)

NoValue == [name |-> <<>>]

Return(v) == [kind |-> "return", value |-> v, exc |-> "none", cause |-> "none", context |-> "none"]

\* an exception of class `type`; `cause` is the class of the exception it was
\* raised `from`, `context` what its message names besides the cause
Raise(type, cause, context) ==
    [kind |-> "raise", value |-> NoValue, exc |-> type, cause |-> cause, context |-> context]

\* raise VisitScheduleModelError(f'{self.__class__.__name__}. Got {e}') from e
RaiseFromValueError == Raise("VisitScheduleModelError", "ValueError", "class_name")

\* raise VisitScheduleModelError(f'visit_schedule_name: ...'. Got {e}') from e
RaiseFromRegistry(e) == Raise("VisitScheduleModelError", e.exc, "visit_schedule_name")

-----------------------------------------------------------------------------
(* Calendar dates and dateutil's relativedelta *)

Units == {"days", "weeks", "months", "years"}

Date(y, m, d) == [year |-> y, month |-> m, day |-> d]

IsLeap(y) == (y % 4 = 0 /\ y % 100 # 0) \/ y % 400 = 0

\* calendar.monthrange(year, month)[1]
DaysInMonth(y, m) ==
    IF m = 2 THEN (IF IsLeap(y) THEN 29 ELSE 28)
    ELSE IF m \in {4, 6, 9, 11} THEN 30 ELSE 31

NextDay(dt) ==
    IF dt.day < DaysInMonth(dt.year, dt.month) THEN Date(dt.year, dt.month, dt.day + 1)
    ELSE IF dt.month < 12 THEN Date(dt.year, dt.month + 1, 1)
    ELSE Date(dt.year + 1, 1, 1)

\* dt + timedelta(days=n), n >= 0
RECURSIVE AddDays(_, _)
AddDays(dt, n) == IF n = 0 THEN dt ELSE AddDays(NextDay(dt), n - 1)

\* relativedelta(**{unit: n}) after its constructor has normalised it: weeks
\* are folded into days, months beyond 11 are carried into years
relativedelta(unit, n) ==
    [years  |-> IF unit = "years" THEN n ELSE IF unit = "months" THEN n \div 12 ELSE 0,
     months |-> IF unit = "months" THEN n % 12 ELSE 0,
     days   |-> IF unit = "days" THEN n ELSE IF unit = "weeks" THEN 7 * n ELSE 0]

\* dt + delta: years and months first, the day clamped to the length of the
\* month reached, then the days
AddDelta(dt, delta) ==
    LET m0   == dt.month + delta.months
        year == dt.year + delta.years + (IF m0 > 12 THEN 1 ELSE 0)
        mon  == IF m0 > 12 THEN m0 - 12 ELSE m0
        day  == IF dt.day > DaysInMonth(year, mon) THEN DaysInMonth(year, mon) ELSE dt.day
    IN  AddDays(Date(year, mon, day), delta.days)

\* base datetimes explored: a month end, a leap day, a year end, a mid-month day
Baselines == {Date(2024, 1, 31), Date(2024, 2, 29), Date(2023, 12, 31), Date(2023, 11, 15)}

-----------------------------------------------------------------------------
(* Visits and schedules *)

Visit(n, unit) == [base_interval |-> n, base_interval_unit |-> unit]

Visits == {Visit(n, unit) : n \in 0..MaxInterval, unit \in Units}

\* the visit sequences timepoint_datetimes is explored on
VisitSeqs == UNION {[1..k -> Visits] : k \in 0..MaxVisits}

\* the visits of the schedules held by the registry
ScheduleVisits(schedule_name) ==
    IF Len(schedule_name) = 1
    THEN <<Visit(0, "days"), Visit(1, "months")>>
    ELSE <<Visit(0, "days"), Visit(2, "weeks"), Visit(1, "years")>>

\* the Schedule named schedule_name of the visit schedule named name
Schedule(name, schedule_name) ==
    [name |-> schedule_name, visit_schedule_name |-> name,
     visits |-> ScheduleVisits(schedule_name)]

\* the schedules each declared visit schedule holds: "a" holds only "a", "aa"
\* holds both "a" and "aa"
ScheduleNames(name) == {s \in Names : Len(s) <= Len(name)}

\* the VisitSchedule named name
VisitSchedule(name) ==
    [name |-> name, schedules |-> [s \in ScheduleNames(name) |-> Schedule(name, s)]]

-----------------------------------------------------------------------------
(* The collaborators: site_visit_schedules and VisitSchedule *)

\* site_visit_schedules.get_visit_schedule(visit_schedule_name)
get_visit_schedule(visit_schedule_name) ==
    IF ~loaded THEN Raise("RegistryNotLoaded", "none", "none")
    ELSE IF visit_schedule_name \notin DOMAIN registry
    THEN Raise("SiteVisitScheduleError", "none", "none")
    ELSE Return(registry[visit_schedule_name])

\* VisitSchedule.get_schedule(schedule_name=schedule_name)
get_schedule(visit_schedule_obj, schedule_name) ==
    IF schedule_name \in DOMAIN visit_schedule_obj.schedules
    THEN Return(visit_schedule_obj.schedules[schedule_name])
    ELSE Raise("ScheduleNotFound", "none", "none")

-----------------------------------------------------------------------------
(* VisitScheduleMethodsModelMixin *)

\* the second try block of visit_schedule: the registry's answer, its two
\* errors re-raised as VisitScheduleModelError
lookup_visit_schedule(visit_schedule_name) ==
    LET got == get_visit_schedule(visit_schedule_name)
    IN  IF got.kind = "raise" /\ got.exc = "RegistryNotLoaded"
        THEN RaiseFromRegistry(got)
        ELSE IF got.kind = "raise" /\ got.exc = "SiteVisitScheduleError"
        THEN RaiseFromRegistry(got)
        ELSE got

\* visit_schedule asking the registry before it has unpacked the split
visit_schedule_registry_first(obj) ==
    LET parts == split(obj.meta_visit_schedule_name)
        got == lookup_visit_schedule(parts[1])
    IN  IF got.kind = "raise" THEN got
        ELSE IF Len(parts) # 2 THEN RaiseFromValueError
        ELSE got

\* visit_schedule rejecting an empty segment as it rejects a wrong count
visit_schedule_nonempty(obj) ==
    LET parts == split(obj.meta_visit_schedule_name)
    IN  IF Len(parts) # 2 THEN RaiseFromValueError
        ELSE IF parts[1] = <<>> \/ parts[2] = <<>> THEN RaiseFromValueError
        ELSE lookup_visit_schedule(parts[1])

\* visit_schedule without its `except RegistryNotLoaded` clause
visit_schedule_unloaded_raw(obj) ==
    LET parts == split(obj.meta_visit_schedule_name)
    IN  IF Len(parts) # 2 THEN RaiseFromValueError
        ELSE LET got == get_visit_schedule(parts[1])
             IN  IF got.kind = "raise" /\ got.exc = "SiteVisitScheduleError"
                 THEN RaiseFromRegistry(got)
                 ELSE got

\* visit_schedule also looking its second segment up
visit_schedule_checks_schedule(obj) ==
    LET parts == split(obj.meta_visit_schedule_name)
    IN  IF Len(parts) # 2 THEN RaiseFromValueError
        ELSE LET got == lookup_visit_schedule(parts[1])
             IN  IF got.kind = "raise" THEN got
                 ELSE IF get_schedule(got.value, parts[2]).kind = "raise"
                 THEN get_schedule(got.value, parts[2])
                 ELSE got

\* the property visit_schedule of the instance obj
visit_schedule(obj) ==
    LET parts == split(obj.meta_visit_schedule_name)
    IN  IF Len(parts) # 2 THEN RaiseFromValueError
        ELSE LET visit_schedule_name == parts[1]
             IN  lookup_visit_schedule(visit_schedule_name)

\* schedule keeping the first segment of the split as the schedule name
schedule_first_segment(obj) ==
    LET parts == split(obj.meta_visit_schedule_name)
    IN  IF Len(parts) # 2 THEN RaiseFromValueError
        ELSE LET schedule_name == parts[1]
                 vs == visit_schedule(obj)
             IN  IF vs.kind = "raise" THEN vs
                 ELSE get_schedule(vs.value, schedule_name)

\* the property schedule of the instance obj
schedule(obj) ==
    LET parts == split(obj.meta_visit_schedule_name)
    IN  IF Len(parts) # 2 THEN RaiseFromValueError
        ELSE LET schedule_name == parts[2]
                 vs == visit_schedule(obj)
             IN  IF vs.kind = "raise" THEN vs
                 ELSE get_schedule(vs.value, schedule_name)

\* the datetime yielded for visit
timepoint_datetime(base_datetime, visit) ==
    IF visit.base_interval = 0 THEN base_datetime
    ELSE AddDelta(base_datetime,
                  relativedelta(visit.base_interval_unit, visit.base_interval))

\* timepoint_datetimes displacing each visit from the datetime of the visit
\* before it
RECURSIVE timepoint_datetimes_chained(_, _)
timepoint_datetimes_chained(base_datetime, visits) ==
    IF visits = <<>> THEN <<>>
    ELSE LET dt == timepoint_datetime(base_datetime, Head(visits))
         IN  << <<Head(visits), dt>> >> \o timepoint_datetimes_chained(dt, Tail(visits))

\* list(timepoint_datetimes(base_datetime, schedule)) for a schedule whose
\* visits are `visits`: the loop, one yield per iteration
RECURSIVE timepoint_datetimes(_, _)
timepoint_datetimes(base_datetime, visits) ==
    IF visits = <<>> THEN <<>>
    ELSE << <<Head(visits), timepoint_datetime(base_datetime, Head(visits))>> >>
         \o timepoint_datetimes(base_datetime, Tail(visits))

-----------------------------------------------------------------------------
(* State *)

\* the instances explored: Meta.visit_schedule_name of the model class and
\* the fields visit_schedule_name and schedule_name stored on the instance
Records ==
    [meta_visit_schedule_name : Paths, visit_schedule_name : Names, schedule_name : Names]

NoArgs == [base_datetime |-> Date(0, 0, 0), visits |-> <<>>]

NoCall == [op |-> "none", args |-> NoArgs, result |-> Return(NoValue)]

\* what `prev` keeps of a call: its operation, how it ended, and whether the
\* registry was left alone between it and the call that followed
Summary(c, unchanged) ==
    [op |-> c.op,
     outcome |-> IF c.op = "none" THEN "none"
                 ELSE IF c.result.kind = "return" THEN "return"
                 ELSE IF c.result.cause # "none" THEN c.result.cause
                 ELSE c.result.exc,
     unchanged |-> unchanged]

Init ==
    /\ self \in Records
    /\ loaded = FALSE
    /\ registry = [n \in {} |-> VisitSchedule(n)]
    /\ call = NoCall
    /\ changed = FALSE
    /\ prev = Summary(NoCall, TRUE)

\* a call of operation op with arguments args ended in result: what the
\* history variables record of it
Called(op, args, result) ==
    /\ call' = [op |-> op, args |-> args, result |-> result]
    /\ prev' = Summary(call, ~changed)
    /\ changed' = FALSE

\* self.schedule with a registry that loads itself when it is asked too early
resolve_schedule_autoload ==
    /\ Called("schedule", NoArgs, schedule(self))
    /\ loaded' = TRUE
    /\ UNCHANGED <<self, registry>>

\* self.schedule
resolve_schedule ==
    /\ Called("schedule", NoArgs, schedule(self))
    /\ UNCHANGED <<self, loaded, registry>>

\* self.visit_schedule
resolve_visit_schedule ==
    /\ Called("visit_schedule", NoArgs, visit_schedule(self))
    /\ UNCHANGED <<self, loaded, registry>>

\* list(self.timepoint_datetimes(base_datetime, schedule))
project_timepoints(base_datetime, visits) ==
    /\ Called("timepoint_datetimes", [base_datetime |-> base_datetime, visits |-> visits],
              Return(timepoint_datetimes(base_datetime, visits)))
    /\ UNCHANGED <<self, loaded, registry>>

\* the visit sequences of the schedules the registry holds
RegisteredVisitSeqs ==
    UNION {{registry[n].schedules[s].visits : s \in DOMAIN registry[n].schedules} :
              n \in DOMAIN registry}

\* site_visit_schedules.register(visit_schedule), while the registry is populated
register ==
    /\ ~loaded
    /\ \E name \in Names \ DOMAIN registry :
          registry' = [n \in DOMAIN registry \cup {name} |-> VisitSchedule(n)]
    /\ changed' = TRUE
    /\ UNCHANGED <<self, loaded, call, prev>>

\* the registry has finished loading
load ==
    /\ ~loaded
    /\ loaded' = TRUE
    /\ changed' = TRUE
    /\ UNCHANGED <<self, registry, call, prev>>

Next ==
    \/ resolve_schedule
    \/ resolve_visit_schedule
    \/ \E base_datetime \in Baselines, visits \in RegisteredVisitSeqs :
          project_timepoints(base_datetime, visits)
    \/ register
    \/ load

Spec == Init /\ [][Next]_vars

\* timepoint_datetimes called once on every base datetime and every schedule up
\* to the bounds
NextTimepoints ==
    /\ call = NoCall
    /\ \E base_datetime \in Baselines, visits \in VisitSeqs :
        project_timepoints(base_datetime, visits)

InitTimepoints ==
    /\ Init
    /\ self = [meta_visit_schedule_name |-> <<"a", ".", "a">>,
               visit_schedule_name |-> <<"a">>, schedule_name |-> <<"a">>]

SpecTimepoints == InitTimepoints /\ [][NextTimepoints]_vars

-----------------------------------------------------------------------------
(* The vocabulary of the claims *)

\* the path the resolvers read
Path == self.meta_visit_schedule_name

\* the positions of the separators in path
Dots(path) == {i \in DOMAIN path : path[i] = "."}

\* path holds exactly one '.'
OneDot(path) == Cardinality(Dots(path)) = 1

\* the text before, and after, the only '.' of path
First(path) == SubSeq(path, 1, (CHOOSE i \in Dots(path) : TRUE) - 1)

Second(path) == SubSeq(path, (CHOOSE i \in Dots(path) : TRUE) + 1, Len(path))

\* the error kinds of the specification, as the exceptions that carry them
MalformedPathError(r) ==
    r.kind = "raise" /\ r.exc = "VisitScheduleModelError" /\ r.cause = "ValueError"

RegistryUnavailableError(r) ==
    r.kind = "raise" /\ r.exc = "VisitScheduleModelError" /\ r.cause = "RegistryNotLoaded"

ScheduleResolutionError(r) ==
    /\ r.kind = "raise"
    /\ r.exc = "VisitScheduleModelError"
    /\ r.cause \in {"SiteVisitScheduleError", "ScheduleNotFound"}

\* the last call was a resolution, and the registry is as that call saw it
Resolved(op) == call.op = op /\ ~changed

\* the path names a registered visit schedule, and a schedule inside it
FirstRegistered == OneDot(Path) /\ First(Path) \in DOMAIN registry

BothRegistered ==
    FirstRegistered /\ Second(Path) \in DOMAIN registry[First(Path)].schedules

-----------------------------------------------------------------------------
(* The claims *)

\* C1: with a loaded registry, a path "A.B" with exactly one '.', A registered
\* and B a schedule of A, the schedule property returns the Schedule named B of
\* the VisitSchedule named A: never one of another visit schedule or name.
C1_ResolvesNamedSchedule ==
    (Resolved("schedule") /\ loaded /\ BothRegistered) =>
        /\ call.result = Return(registry[First(Path)].schedules[Second(Path)])
        /\ call.result.value.name = Second(Path)
        /\ call.result.value.visit_schedule_name = First(Path)

\* "aa.a" resolved: the schedule "a" of the visit schedule "aa", while a
\* schedule "a" of the visit schedule "a" is registered too
C1_Witness ==
    /\ Resolved("schedule") /\ loaded
    /\ Path = <<"a", "a", ".", "a">>
    /\ DOMAIN registry = Names
    /\ call.result.kind = "return"

\* C2: a path that does not hold exactly one '.' makes both properties fail
\* with MalformedPathError whatever the registry's state: never with
\* RegistryUnavailableError or ScheduleResolutionError.
C2_MalformedBeforeRegistry ==
    (call.op \in {"schedule", "visit_schedule"} /\ ~OneDot(Path)) =>
        /\ MalformedPathError(call.result)
        /\ ~RegistryUnavailableError(call.result)
        /\ ~ScheduleResolutionError(call.result)

\* a path with two separators whose first segment is registered, resolved with
\* the registry loaded
C2_Witness ==
    /\ Resolved("visit_schedule") /\ loaded
    /\ Path = <<"a", ".", "a", ".">>
    /\ <<"a">> \in DOMAIN registry
    /\ MalformedPathError(call.result)

\* C3 as stated: a path that splits into two segments of which one is empty is
\* rejected with MalformedPathError.
C3_EmptySegmentRejected ==
    (call.op \in {"schedule", "visit_schedule"} /\ OneDot(Path)
        /\ (First(Path) = <<>> \/ Second(Path) = <<>>)) =>
        MalformedPathError(call.result)

\* C3 amended: MalformedPathError is raised exactly when the path does not hold
\* exactly one '.'; a path with one '.' and an empty segment passes the parse
\* step, and visit_schedule returns the visit schedule its first segment names
\* when that is registered.
C3_MalformedIffNotOneDot ==
    /\ call.op \in {"schedule", "visit_schedule"} =>
          (MalformedPathError(call.result) <=> ~OneDot(Path))
    /\ (Resolved("visit_schedule") /\ loaded /\ FirstRegistered) =>
          call.result = Return(registry[First(Path)])

\* "a." resolved by visit_schedule to the visit schedule "a"
C3_Witness ==
    /\ Resolved("visit_schedule") /\ loaded
    /\ Path = <<"a", ".">>
    /\ call.result.kind = "return"
    /\ call.result.value.name = <<"a">>

\* C4: with a loaded registry and a path with exactly one '.', the schedule
\* property fails with ScheduleResolutionError when the first segment is not
\* registered and when the second names no schedule of the first.
C4_UnresolvableFails ==
    (Resolved("schedule") /\ loaded /\ OneDot(Path) /\ ~BothRegistered) =>
        ScheduleResolutionError(call.result)

\* C5: a resolution of a path with exactly one '.' made before the registry is
\* loaded fails with RegistryUnavailableError; the same resolution made again
\* once the registry is loaded returns what the path names.
C5_RetryAfterLoad ==
    /\ (call.op \in {"schedule", "visit_schedule"} /\ ~loaded /\ OneDot(Path)) =>
          RegistryUnavailableError(call.result)
    /\ (Resolved("schedule") /\ loaded /\ BothRegistered
          /\ prev.op = "schedule" /\ prev.outcome = "RegistryNotLoaded") =>
          call.result = Return(registry[First(Path)].schedules[Second(Path)])
    /\ (Resolved("visit_schedule") /\ loaded /\ FirstRegistered
          /\ prev.op = "visit_schedule" /\ prev.outcome = "RegistryNotLoaded") =>
          call.result = Return(registry[First(Path)])

\* the schedule property failed on an unloaded registry and, called again after
\* the load, returned the schedule
C5_Witness ==
    /\ Resolved("schedule") /\ loaded
    /\ prev.op = "schedule" /\ prev.outcome = "RegistryNotLoaded"
    /\ call.result.kind = "return"
    /\ call.result.value.name = Second(Path)

\* C6: every failure of the two properties reaches the caller as a
\* VisitScheduleModelError that carries the record type and is raised from the
\* underlying cause; none is the collaborator's own error.
C6_FailuresWrapped ==
    (call.op \in {"schedule", "visit_schedule"} /\ call.result.kind = "raise") =>
        /\ call.result.exc = "VisitScheduleModelError"
        /\ call.result.cause # "none"
        /\ call.result.context = "class_name"

\* C7: the schedule resolved for a record is the one its stored fields
\* visit_schedule_name and schedule_name name, when they name a registered one.
C7_FieldsDecide ==
    (Resolved("schedule") /\ loaded /\ call.result.kind = "return"
        /\ self.visit_schedule_name \in DOMAIN registry
        /\ self.schedule_name \in DOMAIN registry[self.visit_schedule_name].schedules) =>
        /\ call.result.value.visit_schedule_name = self.visit_schedule_name
        /\ call.result.value.name = self.schedule_name

\* C8: the visit_schedule property parses and fails as the schedule property
\* does, but looks only the first segment up: for "A.Z", A registered and Z no
\* schedule of A, it returns the VisitSchedule A while the schedule property
\* fails; without exactly one '.' it fails with MalformedPathError.
C8_FirstSegmentOnly ==
    /\ (Resolved("visit_schedule") /\ loaded /\ FirstRegistered) =>
          call.result = Return(registry[First(Path)])
    /\ (Resolved("schedule") /\ loaded /\ FirstRegistered /\ ~BothRegistered) =>
          call.result.kind = "raise"
    /\ (call.op = "visit_schedule" /\ ~OneDot(Path)) =>
          MalformedPathError(call.result)
    /\ (call.op = "visit_schedule" /\ ~loaded /\ OneDot(Path)) =>
          RegistryUnavailableError(call.result)
    /\ (Resolved("visit_schedule") /\ loaded /\ OneDot(Path) /\ ~FirstRegistered) =>
          ScheduleResolutionError(call.result)

\* "a.aa": the schedule property failed, the visit_schedule property called
\* next on the same registry returned the visit schedule "a"
C8_Witness ==
    /\ Resolved("visit_schedule") /\ loaded
    /\ Path = <<"a", ".", "a", "a">>
    /\ call.result.kind = "return"
    /\ call.result.value.name = <<"a">>
    /\ prev.op = "schedule" /\ prev.outcome = "ScheduleNotFound" /\ prev.unchanged

\* the datetime C9 expects for a visit
ExpectedDatetime(base_datetime, visit) ==
    IF visit.base_interval = 0 THEN base_datetime
    ELSE AddDelta(base_datetime,
                  relativedelta(visit.base_interval_unit, visit.base_interval))

\* C9: timepoint_datetimes yields one (visit, datetime) pair per visit of the
\* schedule, in the schedule's order; the datetime is the base datetime for a
\* visit with base_interval 0 and otherwise the base datetime displaced by
\* base_interval in base_interval_unit, whatever the visits before it.
C9_OnePairPerVisit ==
    call.op = "timepoint_datetimes" =>
        LET out == call.result.value
            visits == call.args.visits
        IN  /\ call.result.kind = "return"
            /\ Len(out) = Len(visits)
            /\ \A i \in 1..Len(visits) :
                  /\ out[i][1] = visits[i]
                  /\ out[i][2] = ExpectedDatetime(call.args.base_datetime, visits[i])
                  /\ visits[i].base_interval = 0 => out[i][2] = call.args.base_datetime

\* two visits displaced from 2024-01-31: by one month to the end of February,
\* by two months to 2024-03-31
C9_Witness ==
    /\ call.op = "timepoint_datetimes"
    /\ call.args.base_datetime = Date(2024, 1, 31)
    /\ call.args.visits = <<Visit(1, "months"), Visit(2, "months")>>
    /\ call.result.value = << <<Visit(1, "months"), Date(2024, 2, 29)>>,
                              <<Visit(2, "months"), Date(2024, 3, 31)>> >>

\* C10: a call of schedule, visit_schedule or timepoint_datetimes leaves the
\* registry and its loaded flag as they were, and a call repeated with no
\* registry change in between ends as the call before it did.
C10_CallsOnlyRead ==
    [][changed' = FALSE =>
          /\ registry' = registry
          /\ loaded' = loaded
          /\ (~changed /\ call'.op = call.op /\ call'.args = call.args) =>
                call'.result = call.result]_vars

\* the schedule property called twice in a row on a loaded registry, the
\* second call returning a schedule
C10_Witness ==
    /\ Resolved("schedule") /\ loaded
    /\ prev.op = "schedule" /\ prev.unchanged /\ prev.outcome = "return"
    /\ call.result.kind = "return"
    /\ call.result.value.name = Second(Path)

====
